---- MODULE Spec2Model ----
(***************************************************************************)
(* create-stripeflare: the provisioning pipeline of index.js.              *)
(*                                                                         *)
(* A string is a sequence of symbols.  A symbol is a one-element piece of  *)
(* text that contains no "=", no newline and no blank unless it is exactly *)
(* that character ("=", "\n", " ").  The braces "{{" and "}}" are symbols *)
(* of their own, so a placeholder token is three symbols, as are the       *)
(* replacement patterns "$$" and "$&".  A path is a sequence of            *)
(* components, each component a string.  The filesystem is a function from *)
(* absolute paths to entries.                                              *)
(***************************************************************************)
EXTENDS Naturals, Integers, Sequences, FiniteSets, TLC

VARIABLES
    fs,             \* the filesystem: absolute path -> entry
    fs0,            \* the filesystem at the start of the run (never changes)
    cwd,            \* process.cwd()
    cwd0,           \* the directory the run was started in (never changes)
    processEnv,     \* process.env, restricted to GITHUB_OWNER
    pc,             \* position of main()
    envVars,        \* main: const envVars
    answers,        \* promptForProjectDetails: name, domain, title, price as typed
    projectConfig,  \* main: const projectConfig
    product,        \* createStripePaymentLink: const product
    price,          \* createStripePaymentLink: const price
    paymentLink,    \* main: const paymentLink
    webhookSecret,  \* main: const webhookSecret
    inflight,       \* the external command or billing request awaited, if any
    prompts,        \* the prompts issued so far, in order
    commands,       \* the external commands invoked so far, in order
    requests,       \* the billing API requests made so far, in order
    responses,      \* how each billing API request was answered, in order
    writes,         \* the paths written with fs.writeFileSync so far, in order
    started,        \* the pipeline steps started so far, in order
    completed,      \* the pipeline steps that returned normally
    stderr,         \* console.error / console.warn lines
    exitCode,       \* the process exit status, -1 while running
    subst           \* replaceInFile taken alone: the content being rewritten

vars == <<fs, fs0, cwd, cwd0, subst, processEnv, pc, envVars, answers, projectConfig,
          product, price, paymentLink, webhookSecret, inflight, prompts,
          commands, requests, responses, writes, started, completed, stderr,
          exitCode>>

-----------------------------------------------------------------------------
(* Bounds                                                                  *)

\* longest value of the STRIPE_SECRET line of the credentials file
MaxValueLen == 2

\* longest path, in components, the filesystem accepts
MaxPathLen == 5

-----------------------------------------------------------------------------
(* Strings                                                                 *)

Str(x) == <<x>>

RECURSIVE SeqsUpTo(_, _)
SeqsUpTo(S, n) ==
    IF n = 0 THEN {<<>>}
    ELSE LET shorter == SeqsUpTo(S, n - 1)
         IN  shorter \cup {Append(s, x) : s \in shorter, x \in S}

RECURSIVE Join(_, _)
Join(parts, sep) ==
    IF Len(parts) = 0 THEN <<>>
    ELSE IF Len(parts) = 1 THEN parts[1]
    ELSE parts[1] \o sep \o Join(Tail(parts), sep)

\* String.prototype.split(sep) for a one-symbol separator
RECURSIVE Split(_, _)
Split(s, sep) ==
    IF \A i \in 1..Len(s) : s[i] # sep THEN <<s>>
    ELSE LET i == CHOOSE k \in 1..Len(s) :
                      s[k] = sep /\ \A j \in 1..(k - 1) : s[j] # sep
         IN  <<SubSeq(s, 1, i - 1)>> \o Split(SubSeq(s, i + 1, Len(s)), sep)

RECURSIVE TrimStart(_)
TrimStart(s) ==
    IF Len(s) > 0 /\ s[1] = " " THEN TrimStart(Tail(s)) ELSE s

RECURSIVE TrimEnd(_)
TrimEnd(s) ==
    IF Len(s) > 0 /\ s[Len(s)] = " " THEN TrimEnd(SubSeq(s, 1, Len(s) - 1)) ELSE s

\* String.prototype.trim()
Trim(s) == TrimEnd(TrimStart(s))

-----------------------------------------------------------------------------
(* Paths and the filesystem                                                *)

File(content) == [kind |-> "file", content |-> content]
Dir == [kind |-> "dir"]

HomeDir == <<Str("home")>>
PackageDir == <<Str("pkg")>>
WorkDir == <<Str("work")>>

\* path.join(os.homedir(), ".stripeflare.dev.vars")
envPath == HomeDir \o <<Str(".stripeflare.dev.vars")>>
\* path.join(__dirname, "template")
templatePath == PackageDir \o <<Str("template")>>

\* fs.existsSync
existsSync(f, p) == p \in DOMAIN f

IsPrefix(p, q) == Len(p) <= Len(q) /\ SubSeq(q, 1, Len(p)) = p

\* the entries at or below path p
Below(f, p) == {q \in DOMAIN f : IsPrefix(p, q)}

\* the subtree at p, by path relative to p
TreeAt(f, p) ==
    [r \in {SubSeq(q, Len(p) + 1, Len(q)) : q \in Below(f, p)} |-> f[p \o r]]

\* fs.readdirSync: the names of the entries directly inside directory p
readdirSync(f, p) == {q[Len(q)] : q \in {x \in Below(f, p) : Len(x) = Len(p) + 1}}

\* f with path p set to entry e
Put(f, p, e) == [q \in DOMAIN f \cup {p} |-> IF q = p THEN e ELSE f[q]]

\* path.resolve(name) against the current directory; "" resolves to it
resolve(dir, name) == IF name = <<>> THEN dir ELSE dir \o <<name>>

-----------------------------------------------------------------------------
(* The credentials file                                                    *)

STRIPE_SECRET == Str("STRIPE_SECRET")
STRIPE_PUBLISHABLE_KEY == Str("STRIPE_PUBLISHABLE_KEY")
GITHUB_OWNER == Str("GITHUB_OWNER")

Absent == <<"absent">>

\* the values a STRIPE_SECRET line may carry: everything after its first "="
SecretValues == SeqsUpTo({"sk_x", "=", " "}, MaxValueLen) \cup {Absent}
PublishableValues == {<<"pk_x">>, <<"pk_x", "=", "y">>, Absent}
OwnerValues == {<<"acme">>, <<>>, Absent}

Line(key, value) == IF value = Absent THEN <<>> ELSE <<key \o <<"=">> \o value>>

\* the text of a credentials file with the given values, in README order
CredentialsText(pk, sk, owner) ==
    Join(Line(STRIPE_PUBLISHABLE_KEY, pk) \o Line(STRIPE_SECRET, sk)
            \o Line(GITHUB_OWNER, owner), <<"\n">>)

\* the line KEY=VALUE of a credentials text, VALUE being all after the first "="
RECURSIVE ValueOfLine(_, _)
ValueOfLine(lines, key) ==
    IF Len(lines) = 0 THEN Absent
    ELSE IF IsPrefix(key \o <<"=">>, lines[1])
         THEN SubSeq(lines[1], Len(key) + 2, Len(lines[1]))
         ELSE ValueOfLine(Tail(lines), key)

\* loadEnvVars, lines 74-79: the forEach over the lines of the file
RECURSIVE ParseLines(_, _)
ParseLines(lines, acc) ==
    IF Len(lines) = 0 THEN acc
    ELSE LET parts == Split(lines[1], "=")
             key == parts[1]
             hasValue == Len(parts) >= 2
             value == IF hasValue THEN parts[2] ELSE <<>>
         IN  IF key # <<>> /\ hasValue /\ value # <<>>
             THEN ParseLines(Tail(lines), Put(acc, Trim(key), Trim(value)))
             ELSE ParseLines(Tail(lines), acc)

EmptyMap == [k \in {} |-> <<>>]

parseEnvContent(envContent) == ParseLines(Split(envContent, "\n"), EmptyMap)

\* loadEnvVars, line 81
required == <<STRIPE_SECRET, STRIPE_PUBLISHABLE_KEY, GITHUB_OWNER>>

\* !envVars[key]
Falsy(map, key) == key \notin DOMAIN map \/ map[key] = <<>>

\* loadEnvVars, lines 82-86: the required keys that are missing, in order
MissingKeys(map) == SelectSeq(required, LAMBDA k : Falsy(map, k))

ConfigMissingMessage ==
    <<"~/.stripeflare.dev.vars file not found. Please create it with STRIPE_SECRET, STRIPE_PUBLISHABLE_KEY, and GITHUB_OWNER.">>
MissingKeyMessage(key) == <<"Missing ">> \o key \o <<" in ~/.stripeflare.dev.vars">>

\* loadEnvVars continuing with placeholder credentials when the file is missing
loadEnvVarsDefaulting(f) ==
    IF ~existsSync(f, envPath)
    THEN [ok |-> TRUE, message |-> <<>>,
          value |-> (STRIPE_SECRET :> <<"sk_default">>)
                    @@ (STRIPE_PUBLISHABLE_KEY :> <<"pk_default">>)
                    @@ (GITHUB_OWNER :> <<"user">>)]
    ELSE LET map == parseEnvContent(f[envPath].content)
             missing == MissingKeys(map)
         IN  IF Len(missing) > 0
             THEN [ok |-> FALSE, message |-> MissingKeyMessage(missing[1]),
                   value |-> EmptyMap]
             ELSE [ok |-> TRUE, message |-> <<>>, value |-> map]

\* loadEnvVars: the value returned or the error thrown for a filesystem
loadEnvVars(f) ==
    IF ~existsSync(f, envPath)
    THEN [ok |-> FALSE, message |-> ConfigMissingMessage, value |-> EmptyMap]
    ELSE LET map == parseEnvContent(f[envPath].content)
             missing == MissingKeys(map)
         IN  IF Len(missing) > 0
             THEN [ok |-> FALSE, message |-> MissingKeyMessage(missing[1]),
                   value |-> EmptyMap]
             ELSE [ok |-> TRUE, message |-> <<>>, value |-> map]

-----------------------------------------------------------------------------
(* The template and the working directory                                  *)

\* a placeholder of the template: {{word}}
Token(word) == <<"{{", word, "}}">>

\* template/README.md, reduced to its placeholder structure
ReadmeText == <<"# ">> \o Token("title") \o <<"\n", "Project for ">> \o Token("name")
                \o <<". Configured for: https://">> \o Token("domain")
\* template/main.ts: no placeholder
MainText == <<"import { withStripeflare } from 'stripeflare';">>

\* the template of the repository, relative to the template folder
RepoTemplate ==
    (<<>> :> Dir)
    @@ (<<Str("README.md")>> :> File(ReadmeText))
    @@ (<<Str("main.ts")>> :> File(MainText))

\* a template with a subdirectory
NestedTemplate ==
    RepoTemplate
    @@ (<<Str("src")>> :> Dir)
    @@ (<<Str("src"), Str("page.html")>> :> File(<<"<title>">> \o Token("title") \o <<"</title>">>))

NoTree == [p \in {} |-> Dir]

TemplateTrees == {RepoTemplate, NestedTemplate, NoTree}

\* what may already be at ./app when the run starts
ExistingDir == (<<>> :> Dir) @@ (<<Str("keep.txt")>> :> File(<<"mine ">> \o Token("name")))
ExistingFile == (<<>> :> File(<<"mine">>))
TargetTrees == {NoTree, ExistingDir, ExistingFile}

\* tree t placed at absolute path p
Mount(t, p) == [q \in {p \o r : r \in DOMAIN t} |-> t[SubSeq(q, Len(p) + 1, Len(q))]]

BaseDirs == (HomeDir :> Dir) @@ (PackageDir :> Dir) @@ (WorkDir :> Dir)

ProcessEnvs == {EmptyMap, GITHUB_OWNER :> <<"octo">>, GITHUB_OWNER :> <<"acme">>,
                GITHUB_OWNER :> <<>>}

CredentialFiles ==
    {NoTree} \cup
    {(<<>> :> File(CredentialsText(pk, sk, owner))) :
        pk \in PublishableValues, sk \in SecretValues, owner \in OwnerValues}

Init ==
    /\ \E cred \in CredentialFiles, tpl \in TemplateTrees, target \in TargetTrees :
          fs = Mount(target, WorkDir \o <<Str("app")>>) @@ Mount(tpl, templatePath)
                 @@ Mount(cred, envPath) @@ BaseDirs
    /\ fs0 = fs
    /\ cwd \in {WorkDir} \cup {d \in {templatePath} : existsSync(fs, d)}
    /\ cwd0 = cwd
    /\ subst = EmptyMap
    /\ processEnv \in ProcessEnvs
    /\ pc = "loadEnvVars"
    /\ envVars = EmptyMap
    /\ answers = EmptyMap
    /\ projectConfig = EmptyMap
    /\ product = EmptyMap
    /\ price = EmptyMap
    /\ paymentLink = <<>>
    /\ webhookSecret = <<>>
    /\ inflight = EmptyMap
    /\ prompts = <<>>
    /\ commands = <<>>
    /\ requests = <<>>
    /\ responses = <<>>
    /\ writes = <<>>
    /\ started = <<>>
    /\ completed = <<>>
    /\ stderr = <<>>
    /\ exitCode = -1

-----------------------------------------------------------------------------
(* main                                                                    *)

\* a catch block that prints the error and lets the process end normally
ThrowWithoutExit(message) ==
    /\ pc' = "exited"
    /\ exitCode' = 0
    /\ stderr' = Append(stderr, <<"Error:">> \o message)

\* main, lines 52-55: the catch block
Throw(message) ==
    /\ pc' = "exited"
    /\ exitCode' = 1
    /\ stderr' = Append(stderr, <<"Error:">> \o message)

\* main, line 22
LoadEnvVars ==
    /\ pc = "loadEnvVars"
    /\ started' = Append(started, "loadEnvVars")
    /\ LET r == loadEnvVars(fs)
       IN  IF r.ok
           THEN /\ envVars' = r.value
                /\ completed' = Append(completed, "loadEnvVars")
                /\ pc' = "askName"
                /\ UNCHANGED <<exitCode, stderr>>
           ELSE /\ Throw(r.message)
                /\ UNCHANGED <<envVars, completed>>
    /\ UNCHANGED <<fs, fs0, cwd, cwd0, subst, processEnv, answers, projectConfig, product,
                   price, paymentLink, webhookSecret, inflight, prompts,
                   commands, requests, responses, writes>>

-----------------------------------------------------------------------------
(* promptForProjectDetails                                                 *)

Digit == "0" :> 0 @@ "1" :> 1 @@ "2" :> 2 @@ "3" :> 3 @@ "4" :> 4
         @@ "5" :> 5 @@ "6" :> 6 @@ "7" :> 7 @@ "8" :> 8 @@ "9" :> 9

\* the longest prefix of s made of digits
RECURSIVE DigitPrefix(_)
DigitPrefix(s) ==
    IF Len(s) > 0 /\ s[1] \in DOMAIN Digit
    THEN <<s[1]>> \o DigitPrefix(Tail(s))
    ELSE <<>>

RECURSIVE DecimalValue(_)
DecimalValue(ds) ==
    IF Len(ds) = 0 THEN 0
    ELSE DecimalValue(SubSeq(ds, 1, Len(ds) - 1)) * 10 + Digit[ds[Len(ds)]]

\* thousandths denoted by the fraction digits fs (the inputs have at most three)
Thousandths(ds) ==
    LET d(i) == IF i <= Len(ds) THEN Digit[ds[i]] ELSE 0
    IN  d(1) * 100 + d(2) * 10 + d(3)

\* parseFloat on a string of characters, without exponents: the number in
\* thousandths, or NaN when no digit follows the optional sign
parseFloat(str) ==
    LET s == TrimStart(str)
        negative == Len(s) > 0 /\ s[1] = "-"
        signed == Len(s) > 0 /\ s[1] \in {"-", "+"}
        body == IF signed THEN Tail(s) ELSE s
        whole == DigitPrefix(body)
        rest == SubSeq(body, Len(whole) + 1, Len(body))
        frac == IF Len(rest) > 0 /\ rest[1] = "." THEN DigitPrefix(Tail(rest)) ELSE <<>>
        magnitude == DecimalValue(whole) * 1000 + Thousandths(frac)
    IN  IF Len(whole) = 0 /\ Len(frac) = 0
        THEN [nan |-> TRUE, milli |-> 0]
        ELSE [nan |-> FALSE, milli |-> IF negative THEN 0 - magnitude ELSE magnitude]

NameInputs == {<<>>, <<" ">>, <<"app">>, <<"app", " ">>}
DomainInputs == {<<>>, <<"app.example.com">>}
TitleInputs == {<<>>, <<"My App">>}
\* what may be typed at the price prompt, character by character
PriceInputs == {<<>>, <<"x">>, <<"0">>, <<"-", "5">>, <<"1", "9", ".", "9", "9">>,
                <<"0", ".", "0", "0", "6">>, <<" ", "2", "x">>}

AllFieldsRequired == <<"All fields are required">>
PriceInvalid == <<"Price must be a valid positive number">>

\* promptForProjectDetails, lines 110-125, for the four answers
validateAnswers(a) ==
    IF a["name"] = <<>> \/ a["domain"] = <<>> \/ a["title"] = <<>> \/ a["price"] = <<>>
    THEN [ok |-> FALSE, message |-> AllFieldsRequired, value |-> EmptyMap]
    ELSE LET priceNum == parseFloat(a["price"])
         IN  IF priceNum.nan \/ priceNum.milli <= 0
             THEN [ok |-> FALSE, message |-> PriceInvalid, value |-> EmptyMap]
             ELSE [ok |-> TRUE, message |-> <<>>,
                   value |-> [name |-> Trim(a["name"]), domain |-> Trim(a["domain"]),
                              title |-> Trim(a["title"]), price |-> priceNum.milli]]

\* one rl.question: the prompt is printed and a line is read
Question(field, text, inputs, next) ==
    /\ prompts' = Append(prompts, text)
    /\ \E line \in inputs : answers' = Put(answers, field, line)
    /\ pc' = next

PromptFrame == <<fs, fs0, cwd, cwd0, subst, processEnv, envVars, product, price, paymentLink,
                 webhookSecret, inflight, commands, requests, responses, writes>>

\* promptForProjectDetails, line 105
AskName ==
    /\ pc = "askName"
    /\ started' = Append(started, "promptForProjectDetails")
    /\ Question("name", "Worker/repo name: ", NameInputs, "askDomain")
    /\ UNCHANGED <<PromptFrame, projectConfig, completed, stderr, exitCode>>

\* promptForProjectDetails, line 106
AskDomain ==
    /\ pc = "askDomain"
    /\ Question("domain", "Domain: ", DomainInputs, "askTitle")
    /\ UNCHANGED <<PromptFrame, projectConfig, started, completed, stderr, exitCode>>

\* promptForProjectDetails, line 107
AskTitle ==
    /\ pc = "askTitle"
    /\ Question("title", "Title: ", TitleInputs, "askPrice")
    /\ UNCHANGED <<PromptFrame, projectConfig, started, completed, stderr, exitCode>>

\* promptForProjectDetails, lines 108-128: the last question and the validation
AskPrice ==
    /\ pc = "askPrice"
    /\ prompts' = Append(prompts, "Price (in USD, e.g., 19.99): ")
    /\ \E line \in PriceInputs :
          LET a == Put(answers, "price", line)
              r == validateAnswers(a)
          IN  /\ answers' = a
              /\ IF r.ok
                 THEN /\ projectConfig' = r.value
                      /\ completed' = Append(completed, "promptForProjectDetails")
                      /\ pc' = "createProject"
                      /\ UNCHANGED <<stderr, exitCode>>
                 ELSE /\ Throw(r.message)
                      /\ UNCHANGED <<projectConfig, completed>>
    /\ UNCHANGED <<PromptFrame, started>>

-----------------------------------------------------------------------------
(* External commands                                                       *)

\* execSync(cmd): the command is started in the current directory and awaited
execSync(cmd) ==
    /\ inflight = EmptyMap
    /\ commands' = Append(commands, [cmd |-> cmd, cwd |-> cwd])
    /\ inflight' = [kind |-> "exec", what |-> cmd]

\* the program goes on while the command or request it started is still running
ReturnedStillRunning(kind) ==
    /\ inflight # EmptyMap
    /\ inflight.kind = kind
    /\ inflight' = inflight

\* the awaited command or request has returned
Returned(kind) ==
    /\ inflight # EmptyMap
    /\ inflight.kind = kind
    /\ inflight' = EmptyMap

\* the error execSync throws on a non-zero exit status
CommandFailed(cmd) == <<"Command failed: ">> \o cmd

-----------------------------------------------------------------------------
(* createProject                                                           *)

TemplateMissingMessage == <<"Template folder not found">>
TargetExistsMessage(name) == <<"Directory ">> \o name \o <<" already exists">>

\* the error of a filesystem call on a path longer than the system accepts
NameTooLong == <<"ENAMETOOLONG: name too long">>

\* copyRecursive, lines 168-183, on st = [ok, fs]: the filesystem so far and
\* whether no call has thrown; todo is the part of readdirSync(src) not yet copied
RECURSIVE copyRecursive(_, _, _)
RECURSIVE copyEntries(_, _, _, _)
copyRecursive(f, src, dest) ==
    IF Len(dest) > MaxPathLen THEN [ok |-> FALSE, fs |-> f]
    ELSE LET made == IF existsSync(f, dest) THEN f ELSE Put(f, dest, Dir)
         IN  copyEntries([ok |-> TRUE, fs |-> made], src, dest, readdirSync(made, src))
copyEntries(st, src, dest, todo) ==
    IF todo = {} \/ ~st.ok THEN st
    ELSE LET entry == CHOOSE e \in todo : TRUE
             srcPath == src \o <<entry>>
             destPath == dest \o <<entry>>
             copied == IF st.fs[srcPath].kind = "dir"
                       THEN copyRecursive(st.fs, srcPath, destPath)
                       ELSE IF Len(destPath) > MaxPathLen
                       THEN [ok |-> FALSE, fs |-> st.fs]
                       ELSE [ok |-> TRUE, fs |-> Put(st.fs, destPath, st.fs[srcPath])]
         IN  \* the state after this entry, computed once, is handed on
             CHOOSE result \in {copyEntries(next, src, dest, rest) :
                                   next \in {copied}, rest \in {todo \ {entry}}} : TRUE

GitInitCmd == <<"git init">>
\* createProject, lines 154-156: the owner is read from process.env
GitRemoteCmd(env, name) ==
    <<"git remote add origin ">> \o <<"https://github.com/">>
        \o (IF Falsy(env, GITHUB_OWNER) THEN <<"user">> ELSE env[GITHUB_OWNER])
        \o <<"/">> \o name

RunFrame == <<fs0, cwd0, subst, processEnv, envVars, answers, projectConfig, prompts>>
BillingFrame == <<product, price, paymentLink, webhookSecret, requests, responses>>

\* the checks of createProject without the one on the project path
createProjectErrorTemplateOnly(f, projectPath, name) ==
    IF ~existsSync(f, templatePath) THEN TemplateMissingMessage ELSE <<>>

\* createProject, lines 139-145: the error the two checks throw, <<>> if none
createProjectError(f, projectPath, name) ==
    IF ~existsSync(f, templatePath) THEN TemplateMissingMessage
    ELSE IF existsSync(f, projectPath) THEN TargetExistsMessage(name)
    ELSE <<>>

\* createProject, lines 135-151: the two checks, the copy and chdir
CreateProject ==
    /\ pc = "createProject"
    /\ started' = Append(started, "materialize")
    /\ LET projectPath == resolve(cwd, projectConfig.name)
           error == createProjectError(fs, projectPath, projectConfig.name)
       IN  IF error # <<>>
           THEN /\ Throw(error)
                /\ UNCHANGED <<fs, cwd, completed>>
           ELSE LET copy == copyRecursive(fs, templatePath, projectPath)
                IN  /\ fs' = copy.fs
                    /\ IF copy.ok
                       THEN /\ cwd' = projectPath
                            /\ completed' = Append(completed, "materialize")
                            /\ pc' = "gitInit"
                            /\ UNCHANGED <<stderr, exitCode>>
                       ELSE /\ Throw(NameTooLong)
                            /\ UNCHANGED <<cwd, completed>>
    /\ UNCHANGED <<RunFrame, BillingFrame, inflight, commands, writes>>

\* what a successful git init leaves in the current directory
GitDir == <<Str(".git")>>
GitConfig == GitDir \o <<Str("config")>>

\* createProject, line 152: git init is started
GitInit ==
    /\ pc = "gitInit"
    /\ execSync(GitInitCmd)
    /\ started' = Append(started, "gitInit")
    /\ pc' = "gitInitWait"
    /\ UNCHANGED <<RunFrame, BillingFrame, fs, cwd, writes, completed, stderr, exitCode>>

\* createProject, line 152: git init has returned
GitInitReturn ==
    /\ pc = "gitInitWait"
    /\ Returned("exec")
    /\ \E ok \in BOOLEAN :
          IF ok
          THEN /\ fs' = Put(Put(fs, cwd \o GitDir, Dir), cwd \o GitConfig, File(<<>>))
               /\ pc' = "gitRemote"
               /\ UNCHANGED <<stderr, exitCode>>
          ELSE /\ Throw(CommandFailed(GitInitCmd))
               /\ UNCHANGED fs
    /\ UNCHANGED <<RunFrame, BillingFrame, cwd, commands, writes, started, completed>>

\* createProject, lines 153-158: git remote add is started
GitRemoteAdd ==
    /\ pc = "gitRemote"
    /\ execSync(GitRemoteCmd(processEnv, projectConfig.name))
    /\ pc' = "gitRemoteWait"
    /\ UNCHANGED <<RunFrame, BillingFrame, fs, cwd, writes, started, completed,
                   stderr, exitCode>>

\* createProject, lines 153-160: git remote add has returned
GitRemoteAddReturn ==
    /\ pc = "gitRemoteWait"
    /\ \E ok \in BOOLEAN :
          IF ok
          THEN /\ fs' = Put(fs, cwd \o GitConfig,
                            File(SubSeq(inflight.what, 2, Len(inflight.what))))
               /\ completed' = Append(completed, "gitInit")
               /\ pc' = "replaceTemplateVariables"
               /\ UNCHANGED <<stderr, exitCode>>
          ELSE /\ Throw(CommandFailed(inflight.what))
               /\ UNCHANGED <<fs, completed>>
    /\ Returned("exec")
    /\ UNCHANGED <<RunFrame, BillingFrame, cwd, commands, writes, started>>

-----------------------------------------------------------------------------
(* replaceTemplateVariables                                                *)

\* what a replacement string inserts for one match: "$$" stands for "$" and
\* "$&" for the matched text
RECURSIVE GetSubstitution(_, _)
GetSubstitution(matched, replace) ==
    IF Len(replace) = 0 THEN <<>>
    ELSE (IF replace[1] = "$&" THEN matched
          ELSE IF replace[1] = "$$" THEN <<"$">>
          ELSE <<replace[1]>>)
            \o GetSubstitution(matched, Tail(replace))

\* a replaceAll that takes any placeholder {{...}} for a match of the search string
RECURSIVE replaceAllAnyPlaceholder(_, _, _)
replaceAllAnyPlaceholder(content, search, replace) ==
    IF Len(content) = 0 THEN <<>>
    ELSE IF Len(content) >= 3 /\ content[1] = "{{" /\ content[3] = "}}"
         THEN GetSubstitution(search, replace)
                \o replaceAllAnyPlaceholder(SubSeq(content, 4, Len(content)),
                                            search, replace)
         ELSE <<content[1]>> \o replaceAllAnyPlaceholder(Tail(content), search, replace)

\* String.prototype.replaceAll(search, replace) for a non-empty search string:
\* the matches are taken left to right and what is inserted is not searched
RECURSIVE replaceAll(_, _, _)
replaceAll(content, search, replace) ==
    IF Len(content) = 0 THEN <<>>
    ELSE IF IsPrefix(search, content)
         THEN GetSubstitution(search, replace)
                \o replaceAll(SubSeq(content, Len(search) + 1, Len(content)),
                              search, replace)
         ELSE <<content[1]>> \o replaceAll(Tail(content), search, replace)

\* replaceTemplateVariables, lines 190-194, in Object.entries order
replacements(config) ==
    << <<Token("name"), config.name>>, <<Token("domain"), config.domain>>,
       <<Token("title"), config.title>> >>

\* replaceInFile, lines 232-234
RECURSIVE replaceEach(_, _)
replaceEach(content, reps) ==
    IF Len(reps) = 0 THEN content
    ELSE \* the content after this replacement, computed once, is handed on
         CHOOSE result \in {replaceEach(next, Tail(reps)) :
                               next \in {replaceAll(content, reps[1][1], reps[1][2])}} : TRUE

SkippedDirs == {Str(".git"), Str("node_modules")}

\* the state a substitution pass threads through: the filesystem, the files
\* written and the warnings printed
\* a replaceInFile that gives up on every file once one file has failed
replaceInFileUntilFailure(st, filePath, reps, unreadable) ==
    IF st.warnings # <<>> THEN st
    ELSE IF filePath \in unreadable
    THEN [st EXCEPT !.warnings =
              Append(@, <<"Warning: Could not process file ">> \o Join(filePath, <<"/">>))]
    ELSE [st EXCEPT !.fs = Put(@, filePath,
                               File(replaceEach(st.fs[filePath].content, reps))),
                    !.written = Append(@, filePath)]

\* replaceInFile, lines 228-243; unreadable are the files whose read throws
replaceInFile(st, filePath, reps, unreadable) ==
    IF filePath \in unreadable
    THEN [st EXCEPT !.warnings =
              Append(@, <<"Warning: Could not process file ">> \o Join(filePath, <<"/">>))]
    ELSE [st EXCEPT !.fs = Put(@, filePath,
                               File(replaceEach(st.fs[filePath].content, reps))),
                    !.written = Append(@, filePath)]

\* replaceInDirectory, lines 205-221; todo is the part of readdirSync(dir) left
RECURSIVE replaceInDirectory(_, _, _, _)
RECURSIVE replaceInEntries(_, _, _, _, _)
replaceInDirectory(st, dir, reps, unreadable) ==
    replaceInEntries(st, dir, reps, unreadable, readdirSync(st.fs, dir))
replaceInEntries(st, dir, reps, unreadable, todo) ==
    IF todo = {} THEN st
    ELSE LET entry == CHOOSE e \in todo : TRUE
             fullPath == dir \o <<entry>>
             done == IF st.fs[fullPath].kind = "dir" /\ entry \notin SkippedDirs
                     THEN replaceInDirectory(st, fullPath, reps, unreadable)
                     ELSE IF st.fs[fullPath].kind = "file"
                     THEN replaceInFile(st, fullPath, reps, unreadable)
                     ELSE st
         IN  \* the state after this entry, computed once, is handed on
             CHOOSE result \in {replaceInEntries(next, dir, reps, unreadable, rest) :
                                   next \in {done}, rest \in {todo \ {entry}}} : TRUE

\* the regular files below a directory
FilesBelow(f, dir) == {q \in Below(f, dir) : f[q].kind = "file"}

\* main, line 31: the whole substitution pass over the current directory; at
\* most one file of the tree cannot be read
ReplaceTemplateVariables ==
    /\ pc = "replaceTemplateVariables"
    /\ started' = Append(started, "replaceTemplateVariables")
    /\ \E unreadable \in {{}} \cup {{q} : q \in FilesBelow(fs, cwd)} :
          LET st == replaceInDirectory([fs |-> fs, written |-> <<>>, warnings |-> <<>>],
                                       cwd, replacements(projectConfig), unreadable)
          IN  /\ fs' = st.fs
              /\ writes' = writes \o st.written
              /\ stderr' = stderr \o st.warnings
    /\ completed' = Append(completed, "replaceTemplateVariables")
    /\ pc' = "installDependencies"
    /\ UNCHANGED <<RunFrame, BillingFrame, cwd, inflight, commands, exitCode>>

-----------------------------------------------------------------------------
(* installDependencies                                                     *)

NpmInstallCmd == <<"npm install">>

\* installDependencies, lines 250-251: npm install is started
InstallDependencies ==
    /\ pc = "installDependencies"
    /\ execSync(NpmInstallCmd)
    /\ started' = Append(started, "installDependencies")
    /\ pc' = "installWait"
    /\ UNCHANGED <<RunFrame, BillingFrame, fs, cwd, writes, completed, stderr, exitCode>>

\* npm install has returned and its failure is only logged
InstallReturnSwallowed ==
    /\ pc = "installWait"
    /\ Returned("exec")
    /\ \E ok \in BOOLEAN :
          IF ok
          THEN /\ fs' = Put(fs, cwd \o <<Str("node_modules")>>, Dir)
               /\ completed' = Append(completed, "installDependencies")
               /\ stderr' = stderr
          ELSE /\ stderr' = Append(stderr, CommandFailed(NpmInstallCmd))
               /\ UNCHANGED <<fs, completed>>
    /\ pc' = "createProduct"
    /\ UNCHANGED <<RunFrame, BillingFrame, cwd, commands, writes, started, exitCode>>

\* npm install has returned and its failure makes the run remove the project
\* folder before it exits
InstallReturnCleaningUp ==
    /\ pc = "installWait"
    /\ Returned("exec")
    /\ \E ok \in BOOLEAN :
          IF ok
          THEN /\ fs' = Put(fs, cwd \o <<Str("node_modules")>>, Dir)
               /\ completed' = Append(completed, "installDependencies")
               /\ pc' = "createProduct"
               /\ UNCHANGED <<stderr, exitCode>>
          ELSE /\ Throw(CommandFailed(NpmInstallCmd))
               /\ fs' = [q \in DOMAIN fs \ Below(fs, cwd) |-> fs[q]]
               /\ UNCHANGED completed
    /\ UNCHANGED <<RunFrame, BillingFrame, cwd, commands, writes, started>>

\* installDependencies, lines 251-252: npm install has returned
InstallReturn ==
    /\ pc = "installWait"
    /\ Returned("exec")
    /\ \E ok \in BOOLEAN :
          IF ok
          THEN /\ fs' = Put(fs, cwd \o <<Str("node_modules")>>, Dir)
               /\ completed' = Append(completed, "installDependencies")
               /\ pc' = "createProduct"
               /\ UNCHANGED <<stderr, exitCode>>
          ELSE /\ Throw(CommandFailed(NpmInstallCmd))
               /\ UNCHANGED <<fs, completed>>
    /\ UNCHANGED <<RunFrame, BillingFrame, cwd, commands, writes, started>>

-----------------------------------------------------------------------------
(* createStripePaymentLink and createStripeWebhook                         *)

ProductsUrl == "https://api.stripe.com/v1/products"
PricesUrl == "https://api.stripe.com/v1/prices"
PaymentLinksUrl == "https://api.stripe.com/v1/payment_links"
WebhookEndpointsUrl == "https://api.stripe.com/v1/webhook_endpoints"

\* what the billing API may answer
ProductIds == {"prod_1", "prod_2"}
PriceIds == {"price_1", "price_2"}
PaymentLinkUrls == {<<"https://buy.stripe.com/1">>, <<"https://buy.stripe.com/2">>}
WebhookSecrets == {<<"whsec_1">>, <<"whsec_2">>}
ErrorBody == <<"{error}">>
\* a response with ok set, a response without it, or no response (fetch rejects)
Outcomes == {"ok", "notok", "reject"}

FetchFailed == <<"fetch failed">>
FailedToCreate(what) == <<"Failed to create ", what, ": ">> \o ErrorBody

\* Math.round(config.price * 100) for a positive price given in thousandths
unitAmount(milli) == (milli + 5) \div 10

\* the request of lines 265-275
productRequest(env, config) ==
    [url |-> ProductsUrl, method |-> "POST", bearer |-> env[STRIPE_SECRET],
     body |-> [name |-> config.title, type |-> "service"]]

\* a price request for a fixed product instead of the one just created
priceRequestFixedProduct(env, config, prod) ==
    [url |-> PricesUrl, method |-> "POST", bearer |-> env[STRIPE_SECRET],
     body |-> [currency |-> "usd", product |-> "prod_1",
               unit_amount |-> unitAmount(config.price)]]

\* the request of lines 286-297
priceRequest(env, config, prod) ==
    [url |-> PricesUrl, method |-> "POST", bearer |-> env[STRIPE_SECRET],
     body |-> [currency |-> "usd", product |-> prod.id,
               unit_amount |-> unitAmount(config.price)]]

\* the request of lines 308-321
paymentLinkRequest(env, pr) ==
    [url |-> PaymentLinksUrl, method |-> "POST", bearer |-> env[STRIPE_SECRET],
     body |-> [line_items_0_price |-> pr.id, line_items_0_quantity |-> "1"]]

\* a webhook registration that subscribes to a second event type
webhookRequestTwoEvents(env, config) ==
    [url |-> WebhookEndpointsUrl, method |-> "POST", bearer |-> env[STRIPE_SECRET],
     body |-> [url |-> <<"https://">> \o config.domain \o <<"/stripe-webhook">>,
               enabled_events |-> <<"checkout.session.completed",
                                    "payment_intent.succeeded">>]]

\* the request of lines 343-353
webhookRequest(env, config) ==
    [url |-> WebhookEndpointsUrl, method |-> "POST", bearer |-> env[STRIPE_SECRET],
     body |-> [url |-> <<"https://">> \o config.domain \o <<"/stripe-webhook">>,
               enabled_events |-> <<"checkout.session.completed">>]]

\* fetch(url, ...): the request is sent and awaited
fetch(request) ==
    /\ inflight = EmptyMap
    /\ requests' = Append(requests, request)
    /\ inflight' = [kind |-> "fetch", what |-> request.url]

\* a response that is not ok, or none at all: the error the call site throws
FetchError(outcome, what) ==
    IF outcome = "notok" THEN Throw(FailedToCreate(what)) ELSE Throw(FetchFailed)

FsFrame == <<fs, cwd, commands, writes>>

\* createStripePaymentLink, line 265: the product request is sent
CreateProduct ==
    /\ pc = "createProduct"
    /\ fetch(productRequest(envVars, projectConfig))
    /\ started' = Append(started, "createStripePaymentLink")
    /\ pc' = "productWait"
    /\ UNCHANGED <<RunFrame, FsFrame, responses, product, price, paymentLink, webhookSecret,
                   completed, stderr, exitCode>>

\* createStripePaymentLink, lines 277-283: the product response
ProductResponse ==
    /\ pc = "productWait"
    /\ Returned("fetch")
    /\ \E outcome \in Outcomes :
          /\ responses' = Append(responses, outcome)
          /\ IF outcome = "ok"
             THEN /\ \E id \in ProductIds : product' = [id |-> id]
                  /\ pc' = "createPrice"
                  /\ UNCHANGED <<stderr, exitCode>>
             ELSE /\ FetchError(outcome, "product")
                  /\ UNCHANGED product
    /\ UNCHANGED <<RunFrame, FsFrame, price, paymentLink, webhookSecret, requests,
                   started, completed>>

\* createStripePaymentLink, line 286: the price request is sent
CreatePrice ==
    /\ pc = "createPrice"
    /\ fetch(priceRequest(envVars, projectConfig, product))
    /\ pc' = "priceWait"
    /\ UNCHANGED <<RunFrame, FsFrame, responses, product, price, paymentLink, webhookSecret,
                   started, completed, stderr, exitCode>>

\* createStripePaymentLink, lines 299-305: the price response
PriceResponse ==
    /\ pc = "priceWait"
    /\ Returned("fetch")
    /\ \E outcome \in Outcomes :
          /\ responses' = Append(responses, outcome)
          /\ IF outcome = "ok"
             THEN /\ \E id \in PriceIds : price' = [id |-> id]
                  /\ pc' = "createPaymentLink"
                  /\ UNCHANGED <<stderr, exitCode>>
             ELSE /\ FetchError(outcome, "price")
                  /\ UNCHANGED price
    /\ UNCHANGED <<RunFrame, FsFrame, product, paymentLink, webhookSecret, requests,
                   started, completed>>

\* createStripePaymentLink, line 308: the payment link request is sent
CreatePaymentLink ==
    /\ pc = "createPaymentLink"
    /\ fetch(paymentLinkRequest(envVars, price))
    /\ pc' = "paymentLinkWait"
    /\ UNCHANGED <<RunFrame, FsFrame, responses, product, price, paymentLink, webhookSecret,
                   started, completed, stderr, exitCode>>

\* createStripePaymentLink, lines 323-331: the payment link response
PaymentLinkResponse ==
    /\ pc = "paymentLinkWait"
    /\ Returned("fetch")
    /\ \E outcome \in Outcomes :
          /\ responses' = Append(responses, outcome)
          /\ IF outcome = "ok"
             THEN /\ \E url \in PaymentLinkUrls : paymentLink' = url
                  /\ completed' = Append(completed, "createStripePaymentLink")
                  /\ pc' = "createStripeWebhook"
                  /\ UNCHANGED <<stderr, exitCode>>
             ELSE /\ FetchError(outcome, "payment link")
                  /\ UNCHANGED <<paymentLink, completed>>
    /\ UNCHANGED <<RunFrame, FsFrame, product, price, webhookSecret, requests, started>>

\* createStripeWebhook, line 343: the webhook request is sent
CreateStripeWebhook ==
    /\ pc = "createStripeWebhook"
    /\ fetch(webhookRequest(envVars, projectConfig))
    /\ started' = Append(started, "createStripeWebhook")
    /\ pc' = "webhookWait"
    /\ UNCHANGED <<RunFrame, FsFrame, responses, product, price, paymentLink, webhookSecret,
                   completed, stderr, exitCode>>

\* createStripeWebhook, lines 355-363: the webhook response
WebhookResponse ==
    /\ pc = "webhookWait"
    /\ Returned("fetch")
    /\ \E outcome \in Outcomes :
          /\ responses' = Append(responses, outcome)
          /\ IF outcome = "ok"
             THEN /\ \E secret \in WebhookSecrets : webhookSecret' = secret
                  /\ completed' = Append(completed, "createStripeWebhook")
                  /\ pc' = "createDevVars"
                  /\ UNCHANGED <<stderr, exitCode>>
             ELSE /\ FetchError(outcome, "webhook")
                  /\ UNCHANGED <<webhookSecret, completed>>
    /\ UNCHANGED <<RunFrame, FsFrame, product, price, paymentLink, requests, started>>

-----------------------------------------------------------------------------
(* createDevVars                                                           *)

\* crypto.randomBytes(16).toString("hex"): one symbol stands for 32 hex digits
DbSecrets == {<<"0f1e2d3c4b5a69788796a5b4c3d2e1f0">>, <<"00112233445566778899aabbccddeeff">>}

DevVarsName == Str(".dev.vars")

\* the secrets file assembled without the webhook signing secret
devVarsContentBeforeWebhook(env, link, secret, dbSecret) ==
    Join(<< <<"STRIPE_SECRET", "=">> \o env[STRIPE_SECRET],
            <<"STRIPE_PUBLISHABLE_KEY", "=">> \o env[STRIPE_PUBLISHABLE_KEY],
            <<"STRIPE_PAYMENT_LINK", "=">> \o link,
            <<"STRIPE_WEBHOOK_SIGNING_SECRET", "=">>,
            <<"DB_SECRET", "=">> \o dbSecret >>, <<"\n">>)

\* createDevVars, lines 376-382
devVarsContent(env, link, secret, dbSecret) ==
    Join(<< <<"STRIPE_SECRET", "=">> \o env[STRIPE_SECRET],
            <<"STRIPE_PUBLISHABLE_KEY", "=">> \o env[STRIPE_PUBLISHABLE_KEY],
            <<"STRIPE_PAYMENT_LINK", "=">> \o link,
            <<"STRIPE_WEBHOOK_SIGNING_SECRET", "=">> \o secret,
            <<"DB_SECRET", "=">> \o dbSecret >>, <<"\n">>)

\* the error of a fs.writeFileSync that the system refuses
WriteFailed == <<"EACCES: permission denied, open '.dev.vars'">>

\* main, line 43: createDevVars; the write of line 385 may throw
CreateDevVars ==
    /\ pc = "createDevVars"
    /\ started' = Append(started, "createDevVars")
    /\ \E ok \in BOOLEAN :
          IF ok
          THEN /\ \E dbSecret \in DbSecrets :
                     fs' = Put(fs, cwd \o <<DevVarsName>>,
                               File(devVarsContent(envVars, paymentLink, webhookSecret,
                                                   dbSecret)))
               /\ writes' = Append(writes, cwd \o <<DevVarsName>>)
               /\ completed' = Append(completed, "createDevVars")
               /\ pc' = "secretBulk"
               /\ UNCHANGED <<stderr, exitCode>>
          ELSE /\ Throw(WriteFailed)
               /\ UNCHANGED <<fs, writes, completed>>
    /\ UNCHANGED <<RunFrame, BillingFrame, cwd, inflight, commands>>

-----------------------------------------------------------------------------
(* deployProject                                                           *)

SecretBulkCmd == <<"wrangler secret bulk .dev.vars">>
DeployCmd == <<"wrangler deploy">>

\* deployProject, lines 403-407
deployWarning ==
    << <<"Warning: Deployment or secret upload failed. You may need to run these commands manually:">>,
       <<"   ">> \o SecretBulkCmd,
       <<"   ">> \o DeployCmd >>

\* main, lines 48-51 and the end of main: the process ends with status 0
Succeed ==
    /\ pc' = "exited"
    /\ exitCode' = 0

\* deployProject, line 397: the secret upload is started
SecretBulk ==
    /\ pc = "secretBulk"
    /\ execSync(SecretBulkCmd)
    /\ started' = Append(started, "secretBulk")
    /\ pc' = "secretBulkWait"
    /\ UNCHANGED <<RunFrame, BillingFrame, fs, cwd, writes, completed, stderr, exitCode>>

\* a secret upload whose failure is only warned about before the deploy
SecretBulkReturnThenDeploy ==
    /\ pc = "secretBulkWait"
    /\ Returned("exec")
    /\ \E ok \in BOOLEAN :
          IF ok
          THEN /\ completed' = Append(completed, "secretBulk")
               /\ UNCHANGED stderr
          ELSE /\ stderr' = stderr \o deployWarning
               /\ UNCHANGED completed
    /\ pc' = "wranglerDeploy"
    /\ UNCHANGED <<RunFrame, BillingFrame, fs, cwd, commands, writes, started, exitCode>>

\* deployProject, lines 397-398 and 402-408: the secret upload has returned
SecretBulkReturn ==
    /\ pc = "secretBulkWait"
    /\ Returned("exec")
    /\ \E ok \in BOOLEAN :
          IF ok
          THEN /\ completed' = Append(completed, "secretBulk")
               /\ pc' = "wranglerDeploy"
               /\ UNCHANGED <<stderr, exitCode>>
          ELSE /\ stderr' = stderr \o deployWarning
               /\ Succeed
               /\ UNCHANGED completed
    /\ UNCHANGED <<RunFrame, BillingFrame, fs, cwd, commands, writes, started>>

\* deployProject, line 400: the deploy is started
WranglerDeploy ==
    /\ pc = "wranglerDeploy"
    /\ execSync(DeployCmd)
    /\ started' = Append(started, "deploy")
    /\ pc' = "deployWait"
    /\ UNCHANGED <<RunFrame, BillingFrame, fs, cwd, writes, completed, stderr, exitCode>>

\* deployProject, lines 400-408, and main, lines 48-51: the deploy has returned
WranglerDeployReturn ==
    /\ pc = "deployWait"
    /\ Returned("exec")
    /\ \E ok \in BOOLEAN :
          IF ok
          THEN /\ completed' = Append(completed, "deploy")
               /\ UNCHANGED stderr
          ELSE /\ stderr' = stderr \o deployWarning
               /\ UNCHANGED completed
    /\ Succeed
    /\ UNCHANGED <<RunFrame, BillingFrame, fs, cwd, commands, writes, started>>

Next ==
    \/ LoadEnvVars
    \/ AskName
    \/ AskDomain
    \/ AskTitle
    \/ AskPrice
    \/ CreateProject
    \/ GitInit
    \/ GitInitReturn
    \/ GitRemoteAdd
    \/ GitRemoteAddReturn
    \/ ReplaceTemplateVariables
    \/ InstallDependencies
    \/ InstallReturn
    \/ CreateProduct
    \/ ProductResponse
    \/ CreatePrice
    \/ PriceResponse
    \/ CreatePaymentLink
    \/ PaymentLinkResponse
    \/ CreateStripeWebhook
    \/ WebhookResponse
    \/ CreateDevVars
    \/ SecretBulk
    \/ SecretBulkReturn
    \/ WranglerDeploy
    \/ WranglerDeployReturn

Spec == Init /\ [][Next]_vars

\* the runs with one credentials file, or none, and no GITHUB_OWNER in the
\* environment: every template, working directory and state of ./app
InitFair ==
    /\ Init
    /\ processEnv = EmptyMap
    /\ existsSync(fs, envPath) =>
          fs[envPath].content = CredentialsText(<<"pk_x">>, <<"sk_x">>, <<"acme">>)

\* main runs to its end: a prompt that is answered, a command or request that
\* has returned and every other step that is possible is eventually taken
FairSpec == InitFair /\ [][Next]_vars /\ WF_vars(Next)

-----------------------------------------------------------------------------
(* createProject and replaceTemplateVariables for more templates and values *)

\* a template whose text has braces around a placeholder, and a placeholder
\* inside a folder the substitution pass does not enter
BracedTemplate ==
    (<<>> :> Dir)
    @@ (<<Str("index.html")>> :> File(<<"{{">> \o Token("name") \o <<"}}">>))
    @@ (<<Str("node_modules")>> :> Dir)
    @@ (<<Str("node_modules"), Str("dep.js")>> :> File(Token("name")))

MaterializeTemplates == TemplateTrees \cup {BracedTemplate}
MaterializeNames == {<<"app">>, <<"name">>}
MaterializeDomains == {<<"app.example.com">>, Token("title")}
MaterializeTitles == {<<"My App">>, Token("name"), <<"$&">>, <<"Save ", "$$">>}

\* main, lines 22-28: the state in which createProject is called, after
\* loadEnvVars and promptForProjectDetails have returned
InitMaterialize ==
    /\ \E tpl \in MaterializeTemplates :
          fs = Mount(tpl, templatePath)
                 @@ Mount(<<>> :> File(CredentialsText(<<"pk_x">>, <<"sk_x">>, <<"acme">>)),
                          envPath)
                 @@ BaseDirs
    /\ fs0 = fs
    /\ cwd \in {WorkDir} \cup {d \in {templatePath} : existsSync(fs, d)}
    /\ cwd0 = cwd
    /\ subst = EmptyMap
    /\ processEnv = EmptyMap
    /\ pc = "createProject"
    /\ envVars = loadEnvVars(fs).value
    /\ \E n \in MaterializeNames, d \in MaterializeDomains, t \in MaterializeTitles :
          answers = [name |-> n, domain |-> d, title |-> t,
                     price |-> <<"1", "9", ".", "9", "9">>]
    /\ projectConfig = validateAnswers(answers).value
    /\ product = EmptyMap
    /\ price = EmptyMap
    /\ paymentLink = <<>>
    /\ webhookSecret = <<>>
    /\ inflight = EmptyMap
    /\ prompts = <<"Worker/repo name: ", "Domain: ", "Title: ",
                   "Price (in USD, e.g., 19.99): ">>
    /\ commands = <<>>
    /\ requests = <<>>
    /\ responses = <<>>
    /\ writes = <<>>
    /\ started = <<"loadEnvVars", "promptForProjectDetails">>
    /\ completed = <<"loadEnvVars", "promptForProjectDetails">>
    /\ stderr = <<>>
    /\ exitCode = -1

\* main, lines 28-31
NextMaterialize ==
    \/ CreateProject
    \/ GitInit
    \/ GitInitReturn
    \/ GitRemoteAdd
    \/ GitRemoteAddReturn
    \/ ReplaceTemplateVariables

SpecMaterialize == InitMaterialize /\ [][NextMaterialize]_vars

-----------------------------------------------------------------------------
(* replaceInFile alone: the loop of lines 232-234 over the replacements     *)

\* the orders in which three replacements can be applied
Orders == {o \in [1..3 -> 1..3] : \A i, j \in 1..3 : o[i] = o[j] => i = j}

SubstContents ==
    {ReadmeText, MainText, Token("name") \o Token("title"),
     <<"{{">> \o Token("name") \o <<"}}">>}
SubstNames == MaterializeNames \cup {<<"title">>}

\* a file content has been read (line 230) and the replacements are to be
\* applied to it in some order
InitSubstitute ==
    /\ \E text \in SubstContents, n \in SubstNames, d \in MaterializeDomains,
          t \in MaterializeTitles, o \in Orders :
          LET config == [name |-> n, domain |-> d, title |-> t, price |-> 19990]
          IN  subst = [original |-> text, config |-> config, order |-> o,
                       text |-> text,
                       todo |-> [i \in 1..3 |-> replacements(config)[o[i]]]]
    /\ fs = BaseDirs
    /\ fs0 = fs
    /\ cwd = WorkDir
    /\ cwd0 = cwd
    /\ processEnv = EmptyMap
    /\ pc = "replaceInFile"
    /\ envVars = EmptyMap
    /\ answers = EmptyMap
    /\ projectConfig = EmptyMap
    /\ product = EmptyMap
    /\ price = EmptyMap
    /\ paymentLink = <<>>
    /\ webhookSecret = <<>>
    /\ inflight = EmptyMap
    /\ prompts = <<>>
    /\ commands = <<>>
    /\ requests = <<>>
    /\ responses = <<>>
    /\ writes = <<>>
    /\ started = <<>>
    /\ completed = <<>>
    /\ stderr = <<>>
    /\ exitCode = -1

\* replaceInFile, line 233: one pass of the loop
ReplaceOne ==
    /\ pc = "replaceInFile"
    /\ subst.todo # <<>>
    /\ subst' = [subst EXCEPT
                    !.text = replaceAll(@, subst.todo[1][1], subst.todo[1][2]),
                    !.todo = Tail(@)]
    /\ UNCHANGED <<fs, fs0, cwd, cwd0, processEnv, pc, envVars, answers,
                   projectConfig, product, price, paymentLink, webhookSecret,
                   inflight, prompts, commands, requests, responses, writes,
                   started, completed, stderr, exitCode>>

NextSubstitute == ReplaceOne

SpecSubstitute == InitSubstitute /\ [][NextSubstitute]_vars

-----------------------------------------------------------------------------
(* Properties                                                              *)

Range(seq) == {seq[i] : i \in 1..Len(seq)}

\* the steps of the pipeline in the order of section 4.7
StepOrder == <<"loadEnvVars", "promptForProjectDetails", "materialize", "gitInit",
               "replaceTemplateVariables", "installDependencies",
               "createStripePaymentLink", "createStripeWebhook", "createDevVars",
               "secretBulk", "deploy">>

\* the steps up to and including the secrets-file write
FatalSteps == {StepOrder[i] : i \in 1..9}

\* C1: the steps start in the order load credentials, collect parameters,
\* materialize, version-control init, substitution, install, payment-link
\* chain, webhook, secrets-file write, secret upload, deploy; and a step up to
\* and including the secrets-file write starts only when every earlier step
\* has completed successfully.
C1_StepsStartInOrder ==
    /\ Len(started) <= Len(StepOrder)
    /\ started = SubSeq(StepOrder, 1, Len(started))
    /\ \A i \in 1..Len(started) :
          i <= 9 => \A j \in 1..(i - 1) : StepOrder[j] \in Range(completed)

\* a run in which all eleven steps have started
C1_Witness == started = StepOrder /\ pc = "exited"

\* C2: when the credentials file does not exist at the start, the run fails
\* with ConfigMissing and a non-zero status, and no prompt was issued, nothing
\* on the filesystem was created or written, no external command was invoked
\* and no billing API call was made.
C2_MissingCredentialsFailFirst ==
    ~existsSync(fs0, envPath) =>
        /\ prompts = <<>>
        /\ fs = fs0
        /\ writes = <<>>
        /\ commands = <<>>
        /\ requests = <<>>
        /\ inflight = EmptyMap
        /\ pc \in {"loadEnvVars", "exited"}
        /\ pc = "loadEnvVars" => exitCode = -1
        /\ pc = "exited" =>
              /\ exitCode = 1
              /\ stderr = << <<"Error:">> \o ConfigMissingMessage >>

\* the run without a credentials file has ended
C2_Witness == ~existsSync(fs0, envPath) /\ pc = "exited"

Contains(line, symbol) == \E i \in 1..Len(line) : line[i] = symbol

\* the warning that names the two manual commands has been printed
ManualCommandsWarned ==
    /\ \E i \in 1..Len(stderr) : Contains(stderr[i], "wrangler secret bulk .dev.vars")
    /\ \E i \in 1..Len(stderr) : Contains(stderr[i], "wrangler deploy")

StartedNotCompleted(step) == step \in Range(started) /\ step \notin Range(completed)

BillingCalls == <<"https://api.stripe.com/v1/products",
                  "https://api.stripe.com/v1/prices",
                  "https://api.stripe.com/v1/payment_links",
                  "https://api.stripe.com/v1/webhook_endpoints">>
ChainCallNames == <<"product", "price", "payment link">>

DevVarsWritten ==
    \/ \E i \in 1..Len(writes) : writes[i][Len(writes[i])] = <<".dev.vars">>
    \/ \E q \in DOMAIN fs \ DOMAIN fs0 : q[Len(q)] = <<".dev.vars">>

\* C4: the billing calls are made in the order product, price, payment link,
\* the price call carrying the product identifier returned and the payment
\* link call the price identifier returned; when one of the three calls gets
\* a non-success response, no later billing call is made, the secrets file is
\* not written, and the run fails with an error naming that call.
C4_PaymentLinkChain ==
    /\ Len(requests) <= 4
    /\ \A i \in 1..Len(requests) : requests[i].url = BillingCalls[i]
    /\ Len(requests) >= 2 => requests[2].body.product = product.id
    /\ Len(requests) >= 3 => requests[3].body.line_items_0_price = price.id
    /\ \A i \in 1..Len(responses) :
          i <= 3 /\ responses[i] = "notok" =>
              /\ Len(requests) = i
              /\ ~DevVarsWritten
              /\ pc = "exited"
              /\ exitCode = 1
              /\ Contains(stderr[Len(stderr)], ChainCallNames[i])
              /\ Contains(stderr[Len(stderr)], "Failed to create ")

\* the price call was refused after the product call succeeded
C4_Witness == responses = <<"ok", "notok">> /\ pc = "exited"

\* the project path of the run, once the parameters are collected
TargetPath == resolve(cwd0, projectConfig.name)

\* materialize has started and found an entry at the project path
TargetExisted ==
    /\ "materialize" \in Range(started)
    /\ existsSync(fs0, TargetPath)

\* nothing was done after the failing materialize
NothingAfterMaterialize ==
    /\ pc = "exited"
    /\ exitCode = 1
    /\ fs = fs0
    /\ writes = <<>>
    /\ commands = <<>>
    /\ requests = <<>>
    /\ started = SubSeq(StepOrder, 1, 3)

\* C5 as stated: when an entry exists at the project path, materialize fails
\* with TargetExists, nothing at or inside that entry is touched and no later
\* step runs.
C5_TargetExistsAsStated ==
    TargetExisted =>
        /\ NothingAfterMaterialize
        /\ stderr = << <<"Error:">> \o TargetExistsMessage(projectConfig.name) >>

\* C5, amended: when an entry exists at the project path, materialize fails,
\* with TargetExists when the template folder exists and with TemplateMissing
\* when it does not; nothing at or inside the existing entry is touched and no
\* later step runs.
C5_TargetExistsNothingTouched ==
    TargetExisted =>
        /\ NothingAfterMaterialize
        /\ TreeAt(fs, TargetPath) = TreeAt(fs0, TargetPath)
        /\ stderr = << <<"Error:">> \o
                        (IF existsSync(fs0, templatePath)
                         THEN TargetExistsMessage(projectConfig.name)
                         ELSE TemplateMissingMessage) >>

\* materialize was refused because ./app already held a directory with a file
C5_Witness ==
    /\ TargetExisted
    /\ existsSync(fs0, templatePath)
    /\ existsSync(fs0, TargetPath \o <<Str("keep.txt")>>)
    /\ pc = "exited"

\* the secrets file of the run: .dev.vars at the project root
SecretsPath == TargetPath \o << <<".dev.vars">> >>

SecretsWrites == {i \in 1..Len(writes) : writes[i][Len(writes[i])] = <<".dev.vars">>}

SecretsLines == Split(fs[SecretsPath].content, "\n")

\* C6: .dev.vars is written exactly once in a successful run, by one write
\* that carries all five lines, after the payment link and the webhook signing
\* secret were obtained, and it exists at the project root whenever the
\* secret-upload command is running or has run.
C6_SecretsWrittenOnce ==
    /\ Cardinality(SecretsWrites) <= 1
    /\ pc = "exited" /\ exitCode = 0 => Cardinality(SecretsWrites) = 1
    /\ \A i \in SecretsWrites :
          /\ writes[i] = SecretsPath
          /\ "createStripePaymentLink" \in Range(completed)
          /\ "createStripeWebhook" \in Range(completed)
          /\ existsSync(fs, SecretsPath)
          /\ Len(SecretsLines) = 5
          /\ SecretsLines[3] = <<"STRIPE_PAYMENT_LINK", "=">> \o paymentLink
          /\ SecretsLines[4] = <<"STRIPE_WEBHOOK_SIGNING_SECRET", "=">> \o webhookSecret
          /\ paymentLink # <<>>
          /\ webhookSecret # <<>>
    /\ "secretBulk" \in Range(started) =>
          /\ SecretsWrites # {}
          /\ existsSync(fs, SecretsPath)
          /\ fs[SecretsPath].kind = "file"

\* the secret upload is running
C6_Witness ==
    /\ pc = "secretBulkWait"
    /\ inflight # EmptyMap
    /\ existsSync(fs, SecretsPath)

\* the lines of the credentials file the run started with
CredentialLines == Split(fs0[envPath].content, "\n")

\* the key of a KEY=value line
KeyOfLine(line) == Split(line, "=")[1]

\* C7: for a credentials file with a line KEY=VALUE for STRIPE_SECRET and for
\* STRIPE_PUBLISHABLE_KEY, VALUE being everything after the first "=", a
\* successful run writes .dev.vars with exactly the five keys in the fixed
\* order, the values of the two billing keys identical to the file's VALUEs.
C7_CredentialsCopiedVerbatim ==
    pc = "exited" /\ exitCode = 0 =>
        LET sk == ValueOfLine(CredentialLines, STRIPE_SECRET)
            pk == ValueOfLine(CredentialLines, STRIPE_PUBLISHABLE_KEY)
        IN  sk # Absent /\ pk # Absent =>
                /\ Len(SecretsLines) = 5
                /\ [i \in 1..5 |-> KeyOfLine(SecretsLines[i])] =
                       << <<"STRIPE_SECRET">>, <<"STRIPE_PUBLISHABLE_KEY">>,
                          <<"STRIPE_PAYMENT_LINK">>,
                          <<"STRIPE_WEBHOOK_SIGNING_SECRET">>, <<"DB_SECRET">> >>
                /\ SecretsLines[1] = <<"STRIPE_SECRET", "=">> \o sk
                /\ SecretsLines[2] = <<"STRIPE_PUBLISHABLE_KEY", "=">> \o pk

\* the credentials file exists and the load has run
CredentialsRead == "loadEnvVars" \in Range(started) /\ existsSync(fs0, envPath)

\* what the load reads from the credentials file
CredentialsParsed == parseEnvContent(fs0[envPath].content)

BillingKeysPresent ==
    /\ ~Falsy(CredentialsParsed, STRIPE_SECRET)
    /\ ~Falsy(CredentialsParsed, STRIPE_PUBLISHABLE_KEY)

\* C8: a credentials file with non-empty STRIPE_SECRET and
\* STRIPE_PUBLISHABLE_KEY never makes the load fail, with or without
\* GITHUB_OWNER: the load returns the credentials and the pipeline goes on to
\* parameter collection; only the absence of a billing key fails the load.
C8_OwnerIsOptional ==
    CredentialsRead =>
        /\ BillingKeysPresent <=> "loadEnvVars" \in Range(completed)
        /\ BillingKeysPresent => pc # "exited" \/ Len(started) > 1

\* name, domain and title were supplied and the price prompt got an empty line
NoPriceSupplied ==
    /\ DOMAIN answers = {"name", "domain", "title", "price"}
    /\ Trim(answers["name"]) # <<>>
    /\ Trim(answers["domain"]) # <<>>
    /\ Trim(answers["title"]) # <<>>
    /\ answers["price"] = <<>>

\* C9: with name, domain and title supplied and no price, parameter collection
\* succeeds and the price call carries currency USD and no fixed unit amount;
\* a unit amount is sent only when a price was supplied, and then it is the
\* price in minor units.
C9_PriceIsOptional ==
    /\ NoPriceSupplied => "promptForProjectDetails" \in Range(completed)
    /\ Len(requests) >= 2 =>
          /\ requests[2].body.currency = "usd"
          /\ NoPriceSupplied => "unit_amount" \notin DOMAIN requests[2].body
          /\ "unit_amount" \in DOMAIN requests[2].body =>
                /\ answers["price"] # <<>>
                /\ requests[2].body.unit_amount = (projectConfig.price + 5) \div 10

\* C10: with GITHUB_OWNER=o in the credentials file and project name n, the
\* remote added to the new project is https://github.com/o/n.
C10_RemoteUsesLoadedOwner ==
    \A i \in 1..Len(commands) :
        commands[i].cmd[1] = "git remote add origin " =>
            commands[i].cmd = <<"git remote add origin ", "https://github.com/">>
                                \o envVars[GITHUB_OWNER] \o <<"/">> \o projectConfig.name

\* C11: parameter collection either fails with InvalidParameters or returns a
\* record whose name, domain and title are non-empty; so in every state after
\* it has succeeded, name, domain and title are non-empty.
C11_ParametersNonEmpty ==
    /\ StartedNotCompleted("promptForProjectDetails") /\ pc = "exited" =>
          /\ exitCode = 1
          /\ stderr[Len(stderr)] \in {<<"Error:">> \o AllFieldsRequired,
                                      <<"Error:">> \o PriceInvalid}
    /\ "promptForProjectDetails" \in Range(completed) =>
          /\ projectConfig.name # <<>>
          /\ projectConfig.domain # <<>>
          /\ projectConfig.title # <<>>

\* a placeholder token occurs in the text
HasToken(text) ==
    \E i \in 1..(Len(text) - 2) :
        SubSeq(text, i, i + 2) \in {Token("name"), Token("domain"), Token("title")}

\* the regular files of the project tree outside the folders the substitution
\* pass does not enter
WalkedFiles ==
    {q \in FilesBelow(fs, cwd) :
        \A i \in (Len(cwd) + 1)..(Len(q) - 1) : q[i] \notin SkippedDirs}

\* C12: after materialize followed by substitute, no regular file of the
\* project tree outside the skipped folders contains {{name}}, {{domain}} or
\* {{title}}.
C12_NoTokenRemains ==
    "replaceTemplateVariables" \in Range(completed) =>
        \A q \in WalkedFiles : ~HasToken(fs[q].content)

\* C13: when the project path does not exist, materialize produces a tree with
\* exactly the relative paths of the template, each file with the content of
\* its template file.
C13_CopyIsExact ==
    /\ "materialize" \in Range(started)
    /\ existsSync(fs0, templatePath)
    /\ ~existsSync(fs0, TargetPath)
    => /\ "materialize" \in Range(completed)
       /\ pc = "gitInit" => TreeAt(fs, TargetPath) = TreeAt(fs0, templatePath)

\* C17: the template tree is the same in every reachable state as at the start
\* of the run.
C17_TemplateUntouched == TreeAt(fs, templatePath) = TreeAt(fs0, templatePath)

\* the webhook registration requests of the run
WebhookCalls == {i \in 1..Len(requests) : requests[i].url = WebhookEndpointsUrl}

\* C14: at most one webhook registration request is made per run, only after
\* the payment-link chain succeeded; its URL is https://{domain}/stripe-webhook
\* for the collected domain and it subscribes to checkout.session.completed
\* and to nothing else.
C14_WebhookRegistration ==
    /\ Cardinality(WebhookCalls) <= 1
    /\ \A i \in WebhookCalls :
          /\ "createStripePaymentLink" \in Range(completed)
          /\ SubSeq(responses, 1, i - 1) = <<"ok", "ok", "ok">>
          /\ paymentLink \in PaymentLinkUrls
          /\ requests[i].body.url =
                <<"https://">> \o Trim(answers["domain"]) \o <<"/stripe-webhook">>
          /\ requests[i].body.enabled_events = <<"checkout.session.completed">>

\* the webhook registration has been sent and is awaited
C14_Witness == pc = "webhookWait" /\ WebhookCalls # {}

\* the template file a file of the project tree was copied from
TemplateFileOf(q) == templatePath \o SubSeq(q, Len(cwd) + 1, Len(q))

\* the warning of the substitution pass about file q
SkipWarning(q) == <<"Warning: Could not process file ">> \o Join(q, <<"/">>)

\* C15: during the substitution pass a file that cannot be read or written is
\* skipped with a warning and the pass is not aborted: every other regular
\* file of the walked tree is substituted and the pipeline goes on to
\* dependency install.
C15_FailedFileIsSkipped ==
    /\ "replaceTemplateVariables" \in Range(started) =>
          "replaceTemplateVariables" \in Range(completed)
    /\ pc = "installDependencies" =>
          /\ exitCode = -1
          /\ \A q \in WalkedFiles :
                LET original == fs0[TemplateFileOf(q)].content
                IN  IF q \in Range(writes)
                    THEN fs[q].content = replaceEach(original, replacements(projectConfig))
                    ELSE /\ fs[q].content = original
                         /\ SkipWarning(q) \in Range(stderr)

\* one file of the tree was skipped with a warning, another one was written,
\* and dependency install is next
C15_Witness ==
    /\ pc = "installDependencies"
    /\ \E q \in WalkedFiles : SkipWarning(q) \in Range(stderr)
    /\ \E q \in WalkedFiles : q \in Range(writes)

\* the loop over the replacements has ended
SubstituteDone == pc = "replaceInFile" /\ subst.todo = <<>>

\* the text contains none of the symbols that make a placeholder or a
\* replacement pattern
Inert(text) == \A i \in 1..Len(text) : text[i] \notin {"{{", "}}", "$&", "$$", "$"}

\* every brace of the text belongs to a placeholder {{name}}, {{domain}} or
\* {{title}}
BracesOnlyInTokens(text) ==
    \A i \in 1..Len(text) :
        /\ text[i] = "{{" =>
              i + 2 <= Len(text) /\ HasToken(SubSeq(text, i, i + 2))
        /\ text[i] = "}}" =>
              i >= 3 /\ HasToken(SubSeq(text, i - 2, i))

\* C16 as stated: for every file content and every name, domain and title, the
\* content after substitution is the same whichever order the three
\* replacements are applied in.
C16_AnyOrder ==
    SubstituteDone =>
        subst.text = replaceEach(subst.original, replacements(subst.config))

\* C16, amended: the content after substitution is the same whichever order
\* the three replacements are applied in, provided that name, domain and title
\* contain no brace and no "$" and that every brace of the content belongs to
\* one of the three placeholders.
C16_AnyOrderInertValues ==
    /\ SubstituteDone
    /\ Inert(subst.config.name) /\ Inert(subst.config.domain) /\ Inert(subst.config.title)
    /\ BracesOnlyInTokens(subst.original)
    => subst.text = replaceEach(subst.original, replacements(subst.config))

\* the three placeholders of README.md were replaced in the order title,
\* domain, name
C16_Witness ==
    /\ SubstituteDone
    /\ subst.order = <<3, 2, 1>>
    /\ subst.original = ReadmeText
    /\ subst.text # subst.original
    /\ Inert(subst.config.name) /\ Inert(subst.config.domain) /\ Inert(subst.config.title)

\* C18: when a run fails at some step, nothing created by earlier steps is
\* removed or undone: every entry of the filesystem, the product, the price,
\* the payment link and the webhook endpoint that existed just before the
\* failing step are there in the failed terminal state, and no request other
\* than the creating POST requests was ever sent to the billing API.
C18_NothingUndone ==
    [][pc' = "exited" /\ exitCode' = 1 =>
          /\ \A q \in DOMAIN fs : q \in DOMAIN fs' /\ fs'[q] = fs[q]
          /\ product' = product
          /\ price' = price
          /\ paymentLink' = paymentLink
          /\ webhookSecret' = webhookSecret
          /\ requests' = requests
          /\ \A i \in 1..Len(requests) :
                requests[i].method = "POST" /\ requests[i].url = BillingCalls[i]]_vars

\* the run failed at the secrets-file write, after the project folder, the
\* product, the price, the payment link and the webhook endpoint were created
C18_Witness ==
    /\ pc = "exited"
    /\ exitCode = 1
    /\ StartedNotCompleted("createDevVars")
    /\ existsSync(fs, TargetPath \o <<Str("README.md")>>)
    /\ product # EmptyMap
    /\ price # EmptyMap
    /\ paymentLink # <<>>
    /\ webhookSecret # <<>>
    /\ responses = <<"ok", "ok", "ok", "ok">>

\* the positions of main at which a command or a billing request is awaited
WaitStates == {"gitInitWait", "gitRemoteWait", "installWait", "productWait",
               "priceWait", "paymentLinkWait", "webhookWait", "secretBulkWait",
               "deployWait"}

\* at most one external command or billing request is in flight: one is in
\* flight exactly while main awaits it, and it is the last one started
OneCallAtATime ==
    /\ inflight # EmptyMap <=> pc \in WaitStates
    /\ Len(requests) - Len(responses) =
          IF inflight # EmptyMap /\ inflight.kind = "fetch" THEN 1 ELSE 0
    /\ inflight # EmptyMap /\ inflight.kind = "fetch" =>
          inflight.what = requests[Len(requests)].url
    /\ inflight # EmptyMap /\ inflight.kind = "exec" =>
          inflight.what = commands[Len(commands)].cmd

\* the run has ended, deployed (with or without the warning) or failed
Terminated == pc = "exited" /\ exitCode \in {0, 1}

\* C19: when every prompt receives a line and every external command and
\* billing request returns, every run reaches a terminal state, deployed or
\* failed, and at no point are two external calls or commands in flight.
C19_TerminatesOneCallAtATime == <>Terminated /\ []OneCallAtATime

\* a run that ended after its last external command, the deploy, had returned
C19_Witness ==
    /\ Terminated
    /\ Len(commands) = 5
    /\ Len(requests) = 4
    /\ inflight = EmptyMap

\* the deploy command has been invoked
DeployInvoked == \E i \in 1..Len(commands) : commands[i].cmd = DeployCmd

\* C20: when the secret upload fails, the deploy command is not invoked in that
\* run, which ends with the warning and status 0; the deploy command is
\* invoked only after a successful secret upload.
C20_DeployOnlyAfterUpload ==
    /\ DeployInvoked => "secretBulk" \in Range(completed)
    /\ StartedNotCompleted("secretBulk") /\ pc # "secretBulkWait" =>
          /\ ~DeployInvoked
          /\ pc = "exited"
          /\ exitCode = 0
          /\ ManualCommandsWarned

\* the secret upload failed and the run has ended
C20_Witness ==
    /\ StartedNotCompleted("secretBulk")
    /\ pc = "exited"
    /\ commands[Len(commands)].cmd = SecretBulkCmd

====
